---- MODULE Spec2Model ----
(***************************************************************************)
(* zk-payroll-sdk: the ZKPayroll client (client.ts), its commitment and    *)
(* nullifier scheme (crypto/commitment.ts) and its Groth16 proof wrapper    *)
(* (crypto/groth16.ts), together with the ledger the client talks to.       *)
(*                                                                         *)
(* Byte arrays (Uint8Array) are sequences of bytes 0..255, bigints are      *)
(* integers.  A scalar is ScalarLen bytes wide here (32 in the source) and  *)
(* the scalar field has FieldP elements (the BN254 scalar field in the      *)
(* source); FieldP < 256^ScalarLen as in the source, so several byte        *)
(* arrays denote the same field element.                                    *)
(***************************************************************************)
EXTENDS Integers, Sequences, FiniteSets, TLC

\* ------------------------------------------------------------------ bounds
\* Width of a scalar in bytes (the source uses 32; scaled to fit TLC's integers).
ScalarLen == 2
\* Order of the scalar field (scaled: a prime below 256^ScalarLen, as the
\* BN254 scalar field order is below 2^256, and above every Poseidon digest).
FieldP == 32749
\* Poseidon is idealised as an injective encoding of its reduced inputs; the
\* salary and blinding field elements it is given lie below PoseidonRadix.
PoseidonRadix == 4
\* Modulus of hashAddress (2^254 in the source; scaled: a power of two just
\* above FieldP, as 2^254 is just above the order of the scalar field).
HashModulus == 32768
\* Order of the base field of the curve (scaled: a prime below 256^ScalarLen).
FieldQ == 32771
\* Largest value the wall clock (Date.now()) takes.
MaxClock == 1
\* Number of client operations started in one behaviour.
MaxOps == 3
\* Longest explicit employee list given to processPayroll.
MaxList == 2

\* ------------------------------------------------------- program constants
ByteBase == 256

\* ------------------------------------------------------------- input sets
\* The company id "ACME", as a sequence of UTF-16 code units.
Company == << 65, 67, 77, 69 >>
\* The public key of the client's keypair ("GADMIN"), a treasury address
\* ("GT"), an auditor address ("GAUD") and a view key id ("key-1").
Admin == << 71, 65, 68, 77, 73, 78 >>
Treasury == << 71, 84 >>
Auditor == << 71, 65, 85, 68 >>
KeyId == << 107, 101, 121, 45, 49 >>
\* Employee addresses, as sequences of UTF-16 code units ("GA", "GB").
Employees == { <<71, 65>>, <<71, 66>> }
Salaries == { 0, 1 }
\* Billing period identifiers.
Periods == { 1, 2 }
\* The client calls that can be in flight together.
CallIds == { 1, 2 }

NoBytes == << >>
\* A number argument that is absent (undefined).
NoNum == 0 - 1

RECURSIVE Pow(_, _)
Pow(b, n) == IF n = 0 THEN 1 ELSE b * Pow(b, n - 1)

\* ------------------------------------------------------------------ codec
\* commitment.ts bytesToBigInt: big-endian fold over every byte of the array.
RECURSIVE bytesToBigIntFrom(_, _, _)
bytesToBigIntFrom(bytes, i, result) ==
    IF i > Len(bytes) THEN result
    ELSE bytesToBigIntFrom(bytes, i + 1, result * ByteBase + bytes[i])

bytesToBigInt(bytes) == bytesToBigIntFrom(bytes, 1, 0)

\* commitment.ts bigIntToBytes: the low ScalarLen bytes of value, big-endian.
bigIntToBytes(value) ==
    [i \in 1..ScalarLen |-> (value \div Pow(ByteBase, ScalarLen - i)) % ByteBase]

\* commitment.ts areEqual
areEqual(a, b) ==
    /\ Len(a) = Len(b)
    /\ \A i \in 1..Len(a) : a[i] = b[i]

\* groth16.ts bytesToFieldElement: the decimal string of the big-endian value
\* (the integer stands for its decimal string).
bytesToFieldElement(bytes) == bytesToBigIntFrom(bytes, 1, 0)

\* groth16.ts hashAddress: h = (h * 31 + charCode) mod 2^254 over the address
\* (mod HashModulus here).
RECURSIVE hashAddressFrom(_, _, _)
hashAddressFrom(address, i, hash) ==
    IF i > Len(address) THEN hash
    ELSE hashAddressFrom(address, i + 1, (hash * 31 + address[i]) % HashModulus)

hashAddress(address) == hashAddressFrom(address, 1, 0)

\* ------------------------------------------------------------------- hash
\* F.e(x): the field element of an integer.
FieldE(x) == x % FieldP

RECURSIVE PoseidonEnc(_, _, _, _)
PoseidonEnc(inputs, i, radix, acc) ==
    IF i > Len(inputs) THEN acc
    ELSE PoseidonEnc(inputs, i + 1, radix, acc * radix + FieldE(inputs[i]))

\* circomlibjs poseidon(inputs) followed by F.toObject: every input is reduced
\* to a field element, and the digest is a field element that is different for
\* different reduced inputs (collision-free idealisation).  Digests of two
\* inputs lie in PoseidonRadix..PoseidonWide-1, digests of three inputs at or
\* above PoseidonWide.
PoseidonWide == PoseidonRadix * (PoseidonRadix + 1)

Poseidon(inputs) ==
    IF Len(inputs) = 2
    THEN PoseidonRadix + PoseidonEnc(inputs, 1, PoseidonRadix, 0)
    ELSE PoseidonWide + PoseidonEnc(inputs, 1, PoseidonWide, 0)

\* commitment.ts generateCommitment
generateCommitment(salary, blindingFactor) ==
    bigIntToBytes(Poseidon(<< salary, bytesToBigInt(blindingFactor) >>))

\* commitment.ts verifyCommitment
verifyCommitment(commitment, salary, blindingFactor) ==
    areEqual(commitment, generateCommitment(salary, blindingFactor))

\* commitment.ts generateNullifier
generateNullifier(commitment, period, secret) ==
    bigIntToBytes(Poseidon(<< bytesToBigInt(commitment), period,
                              bytesToBigInt(secret) >>))

\* commitment.ts generateBlindingFactor: ScalarLen random bytes.  The client
\* operations draw from BlindingPool, two factors that are different field
\* elements; BlindingAliases adds factors that differ from them by multiples
\* of the field modulus.
BlindingPool == { bigIntToBytes(v) : v \in { 1, 2 } }
BlindingAliases == { bigIntToBytes(v) : v \in { 0, 1, 2, 3, FieldP, 1 + FieldP, 2 + FieldP } }


\* ----------------------------------------------------------- point codec
\* groth16.ts bigIntToBytes32
bigIntToBytes32(value) ==
    [i \in 1..ScalarLen |-> (value \div Pow(ByteBase, ScalarLen - i)) % ByteBase]

\* Uint8Array.prototype.slice(from, to), zero-based and end-exclusive.
slice(bytes, from, to) ==
    SubSeq(bytes, from + 1, IF to < Len(bytes) THEN to ELSE Len(bytes))

\* groth16.ts bytes32ToBigInt reads bytes[0..ScalarLen-1]; a missing byte is
\* undefined and BigInt(undefined) throws a TypeError.
bytes32Throws(bytes) == Len(bytes) < ScalarLen

bytes32ToBigInt(bytes) == bytesToBigIntFrom(SubSeq(bytes, 1, ScalarLen), 1, 0)

\* Decimal strings are sequences of digits.  BigInt(string) reads one, leading
\* zeros included, and bigint.toString() writes the digits without leading zero.
RECURSIVE BigIntFrom(_, _, _)
BigIntFrom(str, i, acc) ==
    IF i > Len(str) THEN acc ELSE BigIntFrom(str, i + 1, acc * 10 + str[i])

BigInt(str) == BigIntFrom(str, 1, 0)

RECURSIVE toString(_)
toString(value) ==
    IF value < 10 THEN << value >> ELSE Append(toString(value \div 10), value % 10)

\* groth16.ts encodeG1Point: x || y
encodeG1Point(point) ==
    bigIntToBytes32(BigInt(point[1])) \o bigIntToBytes32(BigInt(point[2]))

\* encodeG2Point with the coordinates in the order x0 || y0 || x1 || y1.
encodeG2PointTransposed(point) ==
    bigIntToBytes32(BigInt(point[1][1])) \o bigIntToBytes32(BigInt(point[2][1]))
        \o bigIntToBytes32(BigInt(point[1][2])) \o bigIntToBytes32(BigInt(point[2][2]))

\* groth16.ts encodeG2Point: x0 || x1 || y0 || y1
encodeG2Point(point) ==
    bigIntToBytes32(BigInt(point[1][1])) \o bigIntToBytes32(BigInt(point[1][2]))
        \o bigIntToBytes32(BigInt(point[2][1])) \o bigIntToBytes32(BigInt(point[2][2]))

\* groth16.ts decodeG1Point
decodeG1Throws(bytes) ==
    \/ bytes32Throws(slice(bytes, 0, ScalarLen))
    \/ bytes32Throws(slice(bytes, ScalarLen, 2 * ScalarLen))

\* decodeG1Point with the coordinates in the wrong order.
decodeG1PointSwapped(bytes) ==
    << toString(bytes32ToBigInt(slice(bytes, ScalarLen, 2 * ScalarLen))),
       toString(bytes32ToBigInt(slice(bytes, 0, ScalarLen))), << 1 >> >>

decodeG1Point(bytes) ==
    << toString(bytes32ToBigInt(slice(bytes, 0, ScalarLen))),
       toString(bytes32ToBigInt(slice(bytes, ScalarLen, 2 * ScalarLen))), << 1 >> >>

\* groth16.ts decodeG2Point
decodeG2Throws(bytes) ==
    \E k \in 0..3 : bytes32Throws(slice(bytes, k * ScalarLen, (k + 1) * ScalarLen))

decodeG2Point(bytes) ==
    << << toString(bytes32ToBigInt(slice(bytes, 0, ScalarLen))),
          toString(bytes32ToBigInt(slice(bytes, ScalarLen, 2 * ScalarLen))) >>,
       << toString(bytes32ToBigInt(slice(bytes, 2 * ScalarLen, 3 * ScalarLen))),
          toString(bytes32ToBigInt(slice(bytes, 3 * ScalarLen, 4 * ScalarLen))) >>,
       << << 1 >>, << 0 >> >> >>

\* ---------------------------------------------------------- proof backend
\* The payment circuit (circuits/payment.wasm), by the three statements of the
\* comment on generatePaymentProof.  (1) and (2): the private blinding factor
\* and the payment amount, passed as the input `salary`, open the public
\* commitment.  (3) "the nullifier is correctly computed": the time the
\* nullifier was derived from is not among the inputs, so the inputs do not
\* settle it, and `derived` is what the circuit finds.
CircuitSatisfied(circuitInputs, derived) ==
    /\ Poseidon(<< circuitInputs.salary, circuitInputs.blindingFactor >>)
          = FieldE(circuitInputs.commitment)
    /\ derived

\* The public signals of a circuit input assignment.
PublicSignals(circuitInputs) ==
    << circuitInputs.commitment, circuitInputs.nullifier, circuitInputs.recipientHash >>

\* Prover randomness: two runs of the prover give different proof points.
ProofRandomness == { 1, 2 }

\* snarkjs.groth16.fullProve on a satisfying assignment: three curve points
\* that depend on the prover's randomness, valid for the public signals.
fullProve(circuitInputs, r) ==
    [ pi_a |-> << toString(2 * r), toString(2 * r + 1), << 1 >> >>,
      pi_b |-> << << toString(3 * r), toString(3 * r + 1) >>,
                  << toString(5 * r), toString(5 * r + 1) >>, << << 1 >>, << 0 >> >> >>,
      pi_c |-> << toString(7 * r), toString(7 * r + 1), << 1 >> >>,
      publicSignals |-> PublicSignals(circuitInputs) ]

NoProof == [ a |-> NoBytes, b |-> NoBytes, c |-> NoBytes, nullifier |-> NoBytes,
             attests |-> << >>, points |-> << >> ]

\* groth16.ts generatePaymentProof with Date.now() = time, prover randomness
\* r and the circuit's finding on the nullifier.  The result is
\* [ok, error, proof, nullifier].  With a commitment that is undefined
\* (NoBytes), bytesToBigInt(commitment) in generateNullifier throws a
\* TypeError, outside the try block.  Otherwise ok is FALSE when fullProve
\* throws and the catch rethrows Error("Proof generation failed: ...").
\* attests is the statement the points a, b, c are a valid proof of, and
\* points are the curve points the prover returned.
generatePaymentProof(params, time, r, derived) ==
    IF params.commitment = NoBytes
    THEN [ ok |-> FALSE, error |-> "TypeError", nullifier |-> NoBytes, proof |-> NoProof ]
    ELSE
    LET nullifier == generateNullifier(params.commitment, time, params.blindingFactor)
        circuitInputs ==
            [ salary |-> params.salary,
              blindingFactor |-> bytesToFieldElement(params.blindingFactor),
              commitment |-> bytesToFieldElement(params.commitment),
              nullifier |-> bytesToFieldElement(nullifier),
              recipientHash |-> hashAddress(params.recipient) ]
        snark == fullProve(circuitInputs, r)
    IN  IF CircuitSatisfied(circuitInputs, derived)
        THEN [ ok |-> TRUE,
               error |-> "",
               nullifier |-> nullifier,
               proof |-> [ a |-> encodeG1Point(snark.pi_a),
                           b |-> encodeG2Point(snark.pi_b),
                           c |-> encodeG1Point(snark.pi_c),
                           nullifier |-> nullifier,
                           attests |-> snark.publicSignals,
                           points |-> << snark.pi_a, snark.pi_b, snark.pi_c >> ] ]
        ELSE [ ok |-> FALSE, error |-> "ProofGenerationFailed", nullifier |-> nullifier,
               proof |-> NoProof ]

\* snarkjs.groth16.verify: accepts exactly the points the prover returned,
\* with the signals they were made for.
groth16Verify(signals, snarkProof, made) ==
    /\ made.attests = signals
    /\ << snarkProof.pi_a, snarkProof.pi_b, snarkProof.pi_c >> = made.points

\* groth16.ts verifyProofLocally, the body of its try block: the points are
\* decoded, the signals built and snarkjs.groth16.verify awaited.  The result
\* is [threw, value]; threw is TRUE when a decoder throws or when the verifier
\* backend does (backendThrows: a missing or corrupt verification key).
verifyProofTry(proof, publicInputs, backendThrows) ==
    IF decodeG1Throws(proof.a) \/ decodeG2Throws(proof.b) \/ decodeG1Throws(proof.c)
    THEN [ threw |-> TRUE, value |-> FALSE ]
    ELSE LET snarkProof == [ pi_a |-> decodeG1Point(proof.a),
                             pi_b |-> decodeG2Point(proof.b),
                             pi_c |-> decodeG1Point(proof.c) ]
             signals == << bytesToFieldElement(publicInputs.commitment),
                           bytesToFieldElement(publicInputs.nullifier),
                           publicInputs.recipientHash >>
         IN  IF backendThrows
             THEN [ threw |-> TRUE, value |-> FALSE ]
             ELSE [ threw |-> FALSE, value |-> groth16Verify(signals, snarkProof, proof) ]

\* verifyProofLocally without its catch clause.
verifyProofLocallyNoCatch(proof, publicInputs, backendThrows) ==
    verifyProofTry(proof, publicInputs, backendThrows)

\* groth16.ts verifyProofLocally: try { ... } catch { return false }
verifyProofLocally(proof, publicInputs, backendThrows) ==
    LET attempt == verifyProofTry(proof, publicInputs, backendThrows)
    IN  IF attempt.threw THEN [ threw |-> FALSE, value |-> FALSE ] ELSE attempt

\* ------------------------------------------------------------------ state
VARIABLES
    blindingFactors,  \* client.ts blindingFactors: key -> blinding factor (NoBytes: no entry)
    calls,            \* the client calls in flight, each at one of its await points
    lastResult,       \* how the call that finished last ended (returned value or thrown error)
    lastTx,           \* the transaction the client sent last
    registry,         \* ledger registry: employee -> commitment and active flag
    nullifiers,       \* ledger executor: the nullifiers recorded
    accepted,         \* ledger executor: the payments accepted
    now,              \* the wall clock read by Date.now()
    started,          \* number of client operations started
    proofLog,         \* the generatePaymentProof runs that reached the prover
    secrets,          \* prover-side secrets: the (salary, blinding factor) behind each commitment made
    probe             \* input and result of one run of a pure function

vars == << blindingFactors, calls, lastResult, lastTx, registry, nullifiers,
           accepted, now, started, proofLog, secrets, probe >>

\* client.ts: const key = `${companyId}:${employeeAddress}`
Key(companyId, employeeAddress) == companyId \o << 58 >> \o employeeAddress
Keys == { Key(Company, e) : e \in Employees }

NoEmployee == [ salaryCommitment |-> NoBytes, isActive |-> FALSE, registered |-> FALSE ]

\* A transaction the ledger received: the method and its arguments, absent
\* ones empty, and the verdict of the ledger.
NoTx == [ method |-> "none", companyId |-> << >>, employeeAddress |-> NoBytes,
          commitment |-> NoBytes, amount |-> NoNum, proof |-> NoProof,
          nullifier |-> NoBytes, period |-> NoNum, admin |-> NoBytes,
          treasuryAddress |-> NoBytes, auditorAddress |-> NoBytes,
          scopeValue |-> [ variant |-> "none", args |-> << >> ],
          durationDays |-> 0, keyId |-> NoBytes, verdict |-> "none" ]

IdleCall == [ op |-> "idle", pc |-> "idle", employeeAddress |-> NoBytes,
              amount |-> NoNum, period |-> NoNum, blindingFactor |-> NoBytes,
              commitment |-> NoBytes, proof |-> NoProof, ledger |-> "none",
              found |-> NoEmployee, time |-> NoNum, batch |-> FALSE, employees |-> << >>, given |-> << >>, results |-> << >> ]

NoResult == [ op |-> "none", employeeAddress |-> NoBytes, period |-> NoNum,
              surface |-> "none", success |-> FALSE, error |-> "",
              ledger |-> "none", given |-> << >>, results |-> << >> ]

\* A slot for a new call: the first idle one.
Free(c) == calls[c].op = "idle" /\ \A d \in CallIds : d < c => calls[d].op # "idle"

NoProbe == [ kind |-> "none" ]

InitClient ==
    /\ blindingFactors = [ k \in Keys |-> NoBytes ]
    /\ calls = [ c \in CallIds |-> IdleCall ]
    /\ lastResult = NoResult
    /\ lastTx = NoTx
    /\ registry = [ e \in Employees |-> NoEmployee ]
    /\ nullifiers = { }
    /\ accepted = { }
    /\ now = 0
    /\ started = 0
    /\ proofLog = { }
    /\ secrets = { }

Init == InitClient /\ probe = NoProbe

\* ----------------------------------------------------------------- ledger
\* The registry contract: an employee is added once, and updated or
\* deactivated while registered.
RegistryVerdict(tx) ==
    LET emp == registry[tx.employeeAddress]
    IN  CASE tx.method = "add_employee" ->
                IF emp.registered THEN "invalid" ELSE "applied"
          [] OTHER ->
                IF emp.registered /\ emp.isActive THEN "applied" ELSE "invalid"

RegistryApply(tx) ==
    CASE tx.method = "deactivate_employee" ->
            [ registry EXCEPT ![tx.employeeAddress].isActive = FALSE ]
      [] OTHER ->
            [ registry EXCEPT ![tx.employeeAddress] =
                [ salaryCommitment |-> tx.commitment, isActive |-> TRUE,
                  registered |-> TRUE ] ]

\* The executor contract: a payment is rejected as a replay when its nullifier
\* is recorded, and as invalid when the proof does not verify against the
\* commitment the registry holds for an active employee.  The contract reads
\* the proof points from the bytes a, b, c.
ExecutorVerdict(tx) ==
    LET emp == registry[tx.employeeAddress]
        snarkProof == [ pi_a |-> decodeG1Point(tx.proof.a),
                        pi_b |-> decodeG2Point(tx.proof.b),
                        pi_c |-> decodeG1Point(tx.proof.c) ]
        signals == << bytesToFieldElement(emp.salaryCommitment),
                      bytesToFieldElement(tx.nullifier),
                      hashAddress(tx.employeeAddress) >>
    IN  IF tx.nullifier \in nullifiers THEN "replay"
        ELSE IF emp.registered /\ emp.isActive /\ groth16Verify(signals, snarkProof, tx.proof)
        THEN "applied"
        ELSE "invalid"

\* client.ts submitTransaction, `await this.server.sendTransaction(tx)`: the
\* request does not reach the ledger ("network": sendTransaction throws), or
\* the ledger handles it with its verdict.
Outcomes(verdict) == { "network", verdict }

\* ------------------------------------------------------------ view keys
\* Date.prototype.getTime() is in milliseconds; mapAuditScope divides by 1000.
MsPerSecond == 1000

\* The dates (as getTime() values) a time range is made of.
Dates == { 0, 1500, 3000 }
NoTimeRange == [ present |-> FALSE, start |-> 0, end |-> 0 ]
TimeRanges ==
    { NoTimeRange } \cup { [ present |-> TRUE, start |-> a, end |-> b ] : a, b \in Dates }

\* The values of params.scope: the four members of AuditScope and a string
\* that is none of them.
AuditScopes == { "full", "aggregate", "timeRange", "employeeList", "other" }

\* The values of params.durationDays.
Durations == { 0 - 1, 0, 1, 30 }

NoScopeValue == [ variant |-> "none", args |-> << >> ]

\* client.ts mapAuditScope.  The result is [threw, error, value].
mapAuditScope(scope, timeRange) ==
    CASE scope = "full" ->
            [ threw |-> FALSE, error |-> "",
              value |-> [ variant |-> "FullCompany", args |-> << >> ] ]
      [] scope = "aggregate" ->
            [ threw |-> FALSE, error |-> "",
              value |-> [ variant |-> "AggregateOnly", args |-> << >> ] ]
      [] scope = "timeRange" ->
            IF ~timeRange.present
            THEN [ threw |-> TRUE, error |-> "TimeRangeRequired", value |-> NoScopeValue ]
            ELSE [ threw |-> FALSE, error |-> "",
                   value |-> [ variant |-> "TimeRange",
                               args |-> << timeRange.start \div MsPerSecond,
                                           timeRange.end \div MsPerSecond >> ] ]
      [] OTHER ->
            [ threw |-> TRUE, error |-> "UnknownScope", value |-> NoScopeValue ]

NoViewKeyTx == [ method |-> "none", companyId |-> << >>, admin |-> NoBytes,
                 auditorAddress |-> NoBytes, scopeValue |-> NoScopeValue,
                 durationDays |-> 0 ]

\* What becomes of a transaction given to sendTransaction: the request does
\* not reach the ledger, the ledger receives it and the response is lost, or
\* the response arrives.
Deliveries == { "none", "lost", "answered" }

\* client.ts generateViewKey: the scope is mapped, the generate_view_key call
\* built and submitted, and a view key returned.  The result is
\* [threw, error, tx], tx being the transaction the ledger received.
generateViewKey(params, delivery) ==
    LET scopeValue == mapAuditScope(params.scope, params.timeRange)
        tx == [ method |-> "generate_view_key", companyId |-> params.companyId,
                admin |-> Admin, auditorAddress |-> params.auditorAddress,
                scopeValue |-> scopeValue.value,
                durationDays |-> params.durationDays ]
    IN  IF scopeValue.threw
        THEN [ threw |-> TRUE, error |-> scopeValue.error, tx |-> NoViewKeyTx ]
        ELSE CASE delivery = "none" ->
                    [ threw |-> TRUE, error |-> "NetworkError", tx |-> NoViewKeyTx ]
               [] delivery = "lost" ->
                    [ threw |-> TRUE, error |-> "NetworkError", tx |-> tx ]
               [] OTHER ->
                    [ threw |-> FALSE, error |-> "", tx |-> tx ]

\* ------------------------------------------------------------ call endings
\* client.ts processPayroll, the body of the loop after processPayment
\* returned or threw: results.push(...) and on to the next employee.
\* Otherwise the call ends and its promise settles.
PaymentResult(call, surface, error, ledger) ==
    [ success |-> surface = "returned", error |-> error, period |-> call.period,
      employeeAddress |-> call.employeeAddress, ledger |-> ledger ]

FinishCall(c, call, surface, error, ledger) ==
        IF call.batch
        THEN /\ calls' = [ calls EXCEPT ![c] =
                    [ IdleCall EXCEPT
                        !.op = "processPayroll", !.pc = "loop", !.batch = TRUE,
                        !.period = call.period, !.given = call.given,
                        !.employees = Tail(call.employees),
                        !.results = Append(call.results,
                                           PaymentResult(call, surface, error, ledger)) ] ]
             /\ UNCHANGED lastResult
        ELSE /\ calls' = [ calls EXCEPT ![c] = IdleCall ]
             /\ lastResult' =
                    [ op |-> call.op, employeeAddress |-> call.employeeAddress,
                      period |-> call.period, surface |-> surface,
                      success |-> surface = "returned", error |-> error,
                      ledger |-> ledger, given |-> << >>, results |-> << >> ]

Finish(c, surface, error, ledger) == FinishCall(c, calls[c], surface, error, ledger)

\* The call waits for the response of the ledger, which has handled the
\* transaction with this verdict.
AwaitResponse(c, call, ledger) ==
    /\ calls' = [ calls EXCEPT ![c] = [ call EXCEPT !.pc = "respond", !.ledger = ledger ] ]
    /\ UNCHANGED lastResult

\* sendTransaction returns the response of the ledger, and the call returns
\* without looking at it (deactivateEmployee first clears its entry of the
\* store: DeactivateDelete).
SubmissionReturns(c) ==
    /\ calls[c].pc = "respond"
    /\ calls[c].op # "deactivateEmployee"
    /\ Finish(c, "returned", "", calls[c].ledger)
    /\ UNCHANGED << blindingFactors, lastTx, registry, nullifiers, accepted, now,
                    started, proofLog, secrets, probe >>

\* The response of the ledger does not reach the client: sendTransaction
\* throws after the ledger handled the transaction, and the call ends there.
SubmissionLost(c) ==
    /\ calls[c].pc = "respond"
    /\ Finish(c, "thrown", "NetworkError", calls[c].ledger)
    /\ UNCHANGED << blindingFactors, lastTx, registry, nullifiers, accepted, now,
                    started, proofLog, secrets, probe >>

\* ---------------------------------------------------------- clock
Tick ==
    /\ now < MaxClock
    /\ now' = now + 1
    /\ UNCHANGED << blindingFactors, calls, lastResult, lastTx, registry,
                    nullifiers, accepted, started, proofLog, secrets, probe >>

\* ---------------------------------------------------------- addEmployee
\* client.ts addEmployee up to its first network await: a fresh blinding
\* factor, the commitment, and blindingFactors.set(key, blindingFactor).
AddEmployeeStore(c, e, salary, blindingFactor) ==
    /\ Free(c)
    /\ started < MaxOps
    /\ started' = started + 1
    /\ LET commitment == generateCommitment(salary, blindingFactor)
       IN  /\ blindingFactors' = [ blindingFactors EXCEPT ![Key(Company, e)] = blindingFactor ]
           /\ calls' = [ calls EXCEPT ![c] =
                  [ IdleCall EXCEPT !.op = "addEmployee", !.pc = "submit",
                                    !.employeeAddress = e, !.amount = salary,
                                    !.blindingFactor = blindingFactor,
                                    !.commitment = commitment ] ]
           /\ secrets' = secrets \cup
                  { [ employeeAddress |-> e, commitment |-> commitment,
                      salary |-> salary, blindingFactor |-> blindingFactor ] }
    /\ UNCHANGED << lastResult, lastTx, registry, nullifiers, accepted, now, proofLog, probe >>

\* The registry call with the blinding factor in the place of the commitment.
RegistrySubmitLeaking(c, method) ==
    LET call == calls[c]
        tx == [ NoTx EXCEPT !.method = method, !.companyId = Company,
                            !.employeeAddress = call.employeeAddress,
                            !.commitment = call.blindingFactor ]
    IN  \E ledger \in Outcomes(RegistryVerdict(tx)) :
            /\ IF ledger = "network"
               THEN /\ Finish(c, "thrown", "NetworkError", "network")
                    /\ UNCHANGED << lastTx, registry >>
               ELSE /\ lastTx' = [ tx EXCEPT !.verdict = ledger ]
                    /\ registry' = IF ledger = "applied" THEN RegistryApply(tx) ELSE registry
                    /\ AwaitResponse(c, call, ledger)
            /\ UNCHANGED << blindingFactors, nullifiers, accepted, now, started,
                            proofLog, secrets, probe >>

\* client.ts addEmployee / updateSalary: buildTransaction and submitTransaction
\* of the registry call carrying the commitment, up to the ledger handling it.
RegistrySubmit(c, method) ==
    LET call == calls[c]
        tx == [ NoTx EXCEPT !.method = method, !.companyId = Company,
                            !.employeeAddress = call.employeeAddress,
                            !.commitment = call.commitment ]
    IN  \E ledger \in Outcomes(RegistryVerdict(tx)) :
            /\ IF ledger = "network"
               THEN /\ Finish(c, "thrown", "NetworkError", "network")
                    /\ UNCHANGED << lastTx, registry >>
               ELSE /\ lastTx' = [ tx EXCEPT !.verdict = ledger ]
                    /\ registry' = IF ledger = "applied" THEN RegistryApply(tx) ELSE registry
                    /\ AwaitResponse(c, call, ledger)
            /\ UNCHANGED << blindingFactors, nullifiers, accepted, now, started,
                            proofLog, secrets, probe >>

\* ---------------------------------------------------------- updateSalary
\* client.ts updateSalary up to its first network await.
UpdateSalaryStore(c, e, newSalary, blindingFactor) ==
    /\ Free(c)
    /\ started < MaxOps
    /\ started' = started + 1
    /\ LET commitment == generateCommitment(newSalary, blindingFactor)
       IN  /\ blindingFactors' = [ blindingFactors EXCEPT ![Key(Company, e)] = blindingFactor ]
           /\ calls' = [ calls EXCEPT ![c] =
                  [ IdleCall EXCEPT !.op = "updateSalary", !.pc = "submit",
                                    !.employeeAddress = e, !.amount = newSalary,
                                    !.blindingFactor = blindingFactor,
                                    !.commitment = commitment ] ]
           /\ secrets' = secrets \cup
                  { [ employeeAddress |-> e, commitment |-> commitment,
                      salary |-> newSalary, blindingFactor |-> blindingFactor ] }
    /\ UNCHANGED << lastResult, lastTx, registry, nullifiers, accepted, now, proofLog, probe >>

\* ------------------------------------------------------ deactivateEmployee
\* client.ts deactivateEmployee: the deactivate_employee transaction is built
\* and submitted, up to the ledger handling it; a throw ends the call before
\* the blinding factor is cleared.
DeactivateSubmit(c, e) ==
    /\ Free(c)
    /\ started < MaxOps
    /\ started' = started + 1
    /\ LET tx == [ NoTx EXCEPT !.method = "deactivate_employee", !.companyId = Company,
                               !.employeeAddress = e ]
       IN  \E ledger \in Outcomes(RegistryVerdict(tx)) :
            IF ledger = "network"
            THEN /\ calls' = calls
                 /\ lastResult' =
                       [ NoResult EXCEPT !.op = "deactivateEmployee",
                                         !.employeeAddress = e,
                                         !.surface = "thrown",
                                         !.error = "NetworkError",
                                         !.ledger = "network" ]
                 /\ UNCHANGED << lastTx, registry >>
            ELSE /\ lastTx' = [ tx EXCEPT !.verdict = ledger ]
                 /\ registry' = IF ledger = "applied" THEN RegistryApply(tx) ELSE registry
                 /\ AwaitResponse(c, [ IdleCall EXCEPT !.op = "deactivateEmployee",
                                                       !.employeeAddress = e ], ledger)
    /\ UNCHANGED << blindingFactors, nullifiers, accepted, now, proofLog, secrets, probe >>

\* deactivateEmployee without blindingFactors.delete(key).
DeactivateKeep(c) ==
    /\ calls[c].op = "deactivateEmployee"
    /\ calls[c].pc = "respond"
    /\ Finish(c, "returned", "", calls[c].ledger)
    /\ UNCHANGED << blindingFactors, lastTx, registry, nullifiers, accepted, now,
                    started, proofLog, secrets, probe >>

\* client.ts deactivateEmployee after sendTransaction returned:
\* blindingFactors.delete(key)
DeactivateDelete(c) ==
    /\ calls[c].op = "deactivateEmployee"
    /\ calls[c].pc = "respond"
    /\ blindingFactors' =
          [ blindingFactors EXCEPT ![Key(Company, calls[c].employeeAddress)] = NoBytes ]
    /\ Finish(c, "returned", "", calls[c].ledger)
    /\ UNCHANGED << lastTx, registry, nullifiers, accepted, now, started, proofLog, secrets, probe >>

\* ------------------------------------- registerCompany, view keys
\* A call that builds one transaction, submits it and returns, up to the
\* ledger receiving the transaction.  The client looks at no answer, and
\* companies and view keys are not part of the ledger state kept here: the
\* verdict is "received".
PlainSubmit(c, op, tx) ==
    /\ Free(c)
    /\ started < MaxOps
    /\ started' = started + 1
    /\ \E ledger \in Outcomes("received") :
          IF ledger = "network"
          THEN /\ calls' = calls
               /\ lastResult' = [ NoResult EXCEPT !.op = op, !.surface = "thrown",
                                                  !.error = "NetworkError",
                                                  !.ledger = "network" ]
               /\ UNCHANGED lastTx
          ELSE /\ lastTx' = [ tx EXCEPT !.verdict = ledger ]
               /\ AwaitResponse(c, [ IdleCall EXCEPT !.op = op ], ledger)
    /\ UNCHANGED << blindingFactors, registry, nullifiers, accepted, now, proofLog,
                    secrets, probe >>

\* client.ts registerCompany
RegisterCompany(c, treasuryAddress) ==
    /\ Free(c)
    /\ PlainSubmit(c, "registerCompany",
                   [ NoTx EXCEPT !.method = "register_company", !.companyId = Company,
                                 !.admin = Admin, !.treasuryAddress = treasuryAddress ])

\* The requests generateViewKey is called with by the client: one for the
\* whole company and one for a time range that is not given.
ViewKeyRequests ==
    { [ companyId |-> Company, auditorAddress |-> Auditor, scope |-> "full",
        timeRange |-> NoTimeRange, durationDays |-> 30 ],
      [ companyId |-> Company, auditorAddress |-> Auditor, scope |-> "timeRange",
        timeRange |-> NoTimeRange, durationDays |-> 1 ] }

\* client.ts generateViewKey, up to the ledger receiving generate_view_key;
\* the call throws at once when mapAuditScope throws.
ViewKeySubmit(c, params) ==
    LET out == generateViewKey(params, "lost")
    IN  /\ Free(c)
        /\ IF out.tx = NoViewKeyTx
           THEN /\ started < MaxOps
                /\ started' = started + 1
                /\ calls' = calls
                /\ lastResult' = [ NoResult EXCEPT !.op = "generateViewKey",
                                                   !.surface = "thrown",
                                                   !.error = out.error ]
                /\ UNCHANGED << blindingFactors, lastTx, registry, nullifiers, accepted,
                                now, proofLog, secrets, probe >>
           ELSE PlainSubmit(c, "generateViewKey",
                            [ NoTx EXCEPT !.method = out.tx.method,
                                          !.companyId = out.tx.companyId,
                                          !.admin = out.tx.admin,
                                          !.auditorAddress = out.tx.auditorAddress,
                                          !.scopeValue = out.tx.scopeValue,
                                          !.durationDays = out.tx.durationDays ])

\* client.ts revokeViewKey
RevokeViewKey(c, keyId) ==
    /\ Free(c)
    /\ PlainSubmit(c, "revokeViewKey",
                   [ NoTx EXCEPT !.method = "revoke_view_key", !.admin = Admin,
                                 !.keyId = keyId ])

\* ---------------------------------------------------------- processPayment
\* parseEmployeeResult reading the employee record out of the answer.
parseEmployeeResultRecord(result) == result

\* client.ts parseEmployeeResult: "Result parsers (placeholders)",
\* `return {} as Employee`, an object without salaryCommitment.
parseEmployeeResult(result) == NoEmployee

\* Whether a blinding factor is the one behind the commitment the registry
\* holds for an employee (for some salary).
Opens(blindingFactor, employee) ==
    /\ employee.registered
    /\ \E salary \in Salaries :
          verifyCommitment(employee.salaryCommitment, salary, blindingFactor)

\* client.ts processPayment up to `await this.getEmployee(...)`: the blinding
\* factor is read from the store, and the call throws when there is none.
PaymentBegin(c, call) ==
    LET blindingFactor == blindingFactors[Key(Company, call.employeeAddress)]
    IN  IF blindingFactor = NoBytes
        THEN FinishCall(c, call, "thrown", "BlindingFactorNotFound", "none")
        ELSE /\ calls' = [ calls EXCEPT ![c] =
                    [ call EXCEPT !.pc = "lookup", !.blindingFactor = blindingFactor ] ]
             /\ UNCHANGED lastResult

ProcessPaymentStart(c, e, amount, period) ==
    /\ Free(c)
    /\ started < MaxOps
    /\ started' = started + 1
    /\ PaymentBegin(c, [ IdleCall EXCEPT !.op = "processPayment", !.employeeAddress = e,
                                         !.amount = amount, !.period = period ])
    /\ UNCHANGED << blindingFactors, lastTx, registry, nullifiers, accepted, now,
                    proofLog, secrets, probe >>

\* client.ts getEmployee: the employee object made of the answer to
\* get_employee, which is the record the registry holds for the address.
getEmployee(address) == parseEmployeeResult(registry[address])

\* client.ts getEmployee, awaited by processPayment: the ledger simulates
\* get_employee and answers from the registry as it is at that moment, or it
\* is not reached and the call throws.  found is the employee object
\* getEmployee returns for this answer.
ProcessPaymentLookup(c) ==
    /\ calls[c].pc = "lookup"
    /\ \/ Finish(c, "thrown", "NetworkError", "none")
       \/ /\ calls' = [ calls EXCEPT ![c].pc = "answer",
                                     ![c].found = getEmployee(calls[c].employeeAddress) ]
          /\ UNCHANGED lastResult
    /\ UNCHANGED << blindingFactors, lastTx, registry, nullifiers, accepted, now,
                    started, proofLog, secrets, probe >>

\* client.ts processPayment when the answer of getEmployee arrives (or is
\* lost, and the call throws): generatePaymentProof is called with the stored
\* blinding factor and employee.salaryCommitment; it reads Date.now() as it
\* calls generateNullifier and awaits.  The call keeps the time for the
\* nullifier, which needs a commitment.
ProcessPaymentProofStart(c) ==
    /\ calls[c].pc = "answer"
    /\ \/ Finish(c, "thrown", "NetworkError", "none")
       \/ LET employee == calls[c].found
          IN  /\ calls' = [ calls EXCEPT
                     ![c].pc = "proving",
                     ![c].found = NoEmployee,
                     ![c].commitment = employee.salaryCommitment,
                     ![c].time = IF employee.salaryCommitment = NoBytes
                                 THEN NoNum ELSE now ]
              /\ UNCHANGED lastResult
    /\ UNCHANGED << blindingFactors, lastTx, registry, nullifiers, accepted, now,
                    started, proofLog, secrets, probe >>

\* processPayment leaving no entry for the key in the store when
\* generatePaymentProof has ended.
ProcessPaymentProofEndClearing(c) ==
    /\ calls[c].pc = "proving"
    /\ blindingFactors' =
          [ blindingFactors EXCEPT ![Key(Company, calls[c].employeeAddress)] = NoBytes ]
    /\ Finish(c, "thrown", "TypeError", "none")
    /\ UNCHANGED << lastTx, registry, nullifiers, accepted, now, started, proofLog,
                    secrets, probe >>

\* client.ts processPayment when generatePaymentProof ends: it throws, and
\* processPayment with it (there is no catch), or it returns the proof and
\* the execute_payment transaction is built.
ProcessPaymentProofEnd(c) ==
    /\ calls[c].pc = "proving"
    /\ LET call == calls[c]
           params == [ salary |-> call.amount,
                       blindingFactor |-> call.blindingFactor,
                       recipient |-> call.employeeAddress,
                       commitment |-> call.commitment ]
       IN  \E r \in ProofRandomness, derived \in BOOLEAN :
           LET run == generatePaymentProof(params, call.time, r, derived)
           IN  IF run.error = "TypeError"
               THEN /\ Finish(c, "thrown", "TypeError", "none")
                    /\ UNCHANGED proofLog
               ELSE /\ proofLog' = proofLog \cup
                          { [ commitment |-> params.commitment,
                              blindingFactor |-> params.blindingFactor,
                              salary |-> params.salary,
                              period |-> call.period,
                              nullifier |-> run.nullifier,
                              ok |-> run.ok ] }
                    /\ IF run.ok
                       THEN /\ calls' = [ calls EXCEPT ![c] =
                                  [ call EXCEPT !.pc = "submit", !.proof = run.proof ] ]
                            /\ UNCHANGED lastResult
                       ELSE Finish(c, "thrown", run.error, "none")
    /\ UNCHANGED << blindingFactors, lastTx, registry, nullifiers, accepted, now,
                    started, secrets, probe >>

\* client.ts processPayment: the execute_payment transaction.
ExecutePaymentTx(call) ==
    [ NoTx EXCEPT !.method = "execute_payment", !.companyId = Company,
                  !.employeeAddress = call.employeeAddress,
                  !.amount = call.amount, !.proof = call.proof,
                  !.nullifier = call.proof.nullifier, !.period = call.period ]

\* client.ts processPayment: buildTransaction and submitTransaction of
\* execute_payment, up to the ledger handling it.
ExecutePaymentSubmit(c) ==
    LET call == calls[c]
        tx == ExecutePaymentTx(call)
    IN  \E ledger \in Outcomes(ExecutorVerdict(tx)) :
            /\ IF ledger = "network"
               THEN /\ Finish(c, "thrown", "NetworkError", "network")
                    /\ UNCHANGED << lastTx, nullifiers, accepted >>
               ELSE /\ lastTx' = [ tx EXCEPT !.verdict = ledger ]
                    /\ IF ledger = "applied"
                       THEN /\ nullifiers' = nullifiers \cup { tx.nullifier }
                            /\ accepted' = accepted \cup
                                  { [ employeeAddress |-> tx.employeeAddress,
                                      commitment |->
                                          registry[tx.employeeAddress].salaryCommitment,
                                      period |-> tx.period,
                                      nullifier |-> tx.nullifier ] }
                       ELSE UNCHANGED << nullifiers, accepted >>
                    /\ AwaitResponse(c, call, ledger)
            /\ UNCHANGED << blindingFactors, registry, now, started, proofLog,
                            secrets, probe >>

\* ------------------------------------------------------- submitTransaction
\* client.ts buildTransaction and submitTransaction of the transaction a call
\* has built, up to the ledger handling it: add_employee of addEmployee,
\* update_salary_commitment of updateSalary, execute_payment of processPayment
\* (which the client reaches with a proof only).
SubmitTransaction(c) ==
    /\ calls[c].pc = "submit"
    /\ CASE calls[c].op = "addEmployee" -> RegistrySubmit(c, "add_employee")
         [] calls[c].op = "updateSalary" -> RegistrySubmit(c, "update_salary_commitment")
         [] OTHER -> ExecutePaymentSubmit(c)

\* ---------------------------------------------------------- processPayroll
\* client.ts getEmployeeSalary: "TODO: Implement - retrieve stored salary"
getEmployeeSalary(companyId, employee) == 0

\* client.ts processPayroll, the head of the loop: employees without a stored
\* blinding factor are skipped (console.warn and continue).
RECURSIVE SkipMissing(_)
SkipMissing(employees) ==
    IF employees = << >> THEN << >>
    ELSE IF blindingFactors[Key(Company, Head(employees))] = NoBytes
         THEN SkipMissing(Tail(employees))
         ELSE employees

RECURSIVE SeqsUpTo(_, _)
SeqsUpTo(S, n) ==
    IF n = 0 THEN { << >> }
    ELSE LET shorter == SeqsUpTo(S, n - 1)
         IN  shorter \cup { Append(q, x) : q \in shorter, x \in S }

\* client.ts processPayroll from the head of the loop: it runs on to the next
\* employee with a blinding factor, whose salary it awaits, or to the end of
\* the list, where it returns the results.
PayrollRun(c, call) ==
    LET rest == SkipMissing(call.employees)
    IN  IF rest = << >>
        THEN /\ calls' = [ calls EXCEPT ![c] = IdleCall ]
             /\ lastResult' =
                   [ NoResult EXCEPT !.op = "processPayroll", !.period = call.period,
                                     !.surface = "returned", !.success = TRUE,
                                     !.given = call.given,
                                     !.results = call.results ]
        ELSE /\ calls' = [ calls EXCEPT ![c] =
                   [ call EXCEPT !.pc = "pay", !.employees = rest,
                                 !.employeeAddress = Head(rest),
                                 !.amount = getEmployeeSalary(Company, Head(rest)) ] ]
             /\ UNCHANGED lastResult

\* processPayroll called with an explicit employee list.
PayrollStart(c, employees, period) ==
    /\ Free(c)
    /\ started < MaxOps
    /\ started' = started + 1
    /\ PayrollRun(c, [ IdleCall EXCEPT !.op = "processPayroll", !.pc = "loop",
                                       !.batch = TRUE, !.period = period,
                                       !.employees = employees, !.given = employees ])
    /\ UNCHANGED << blindingFactors, lastTx, registry, nullifiers,
                    accepted, now, proofLog, secrets, probe >>

\* The loop after a payment returned or threw and its result was pushed.
PayrollLoop(c) ==
    /\ calls[c].op = "processPayroll"
    /\ calls[c].pc = "loop"
    /\ PayrollRun(c, calls[c])
    /\ UNCHANGED << blindingFactors, lastTx, registry, nullifiers, accepted, now,
                    started, proofLog, secrets, probe >>

\* The processPayment call the loop makes for the employee.
PayrollPay(c) ==
    /\ calls[c].op = "processPayroll"
    /\ calls[c].pc = "pay"
    /\ PaymentBegin(c, calls[c])
    /\ UNCHANGED << blindingFactors, lastTx, registry, nullifiers, accepted, now,
                    started, proofLog, secrets, probe >>

\* The explicit lists processPayroll is called with: each employee at most once.
PayrollLists ==
    { q \in SeqsUpTo(Employees, MaxList) : \A i, j \in DOMAIN q : q[i] = q[j] => i = j }

\* ------------------------------------------------------------ behaviours
Next ==
    \/ Tick
    \/ \E c \in CallIds, e \in Employees, salary \in Salaries, b \in BlindingPool :
          AddEmployeeStore(c, e, salary, b)
    \/ \E c \in CallIds : SubmitTransaction(c)
    \/ \E c \in CallIds : SubmissionReturns(c)
    \/ \E c \in CallIds : SubmissionLost(c)
    \/ \E c \in CallIds, e \in Employees, salary \in Salaries, b \in BlindingPool :
          UpdateSalaryStore(c, e, salary, b)
    \/ \E c \in CallIds, e \in Employees : DeactivateSubmit(c, e)
    \/ \E c \in CallIds : DeactivateDelete(c)
    \/ \E c \in CallIds : RegisterCompany(c, Treasury)
    \/ \E c \in CallIds, params \in ViewKeyRequests : ViewKeySubmit(c, params)
    \/ \E c \in CallIds : RevokeViewKey(c, KeyId)
    \/ \E c \in CallIds, e \in Employees, amount \in Salaries, period \in Periods :
          ProcessPaymentStart(c, e, amount, period)
    \/ \E c \in CallIds : ProcessPaymentLookup(c)
    \/ \E c \in CallIds : ProcessPaymentProofStart(c)
    \/ \E c \in CallIds : ProcessPaymentProofEnd(c)
    \/ \E c \in CallIds, period \in Periods :
          \E employees \in PayrollLists : PayrollStart(c, employees, period)
    \/ \E c \in CallIds : PayrollLoop(c)
    \/ \E c \in CallIds : PayrollPay(c)

\* The client and the ledger.  parseEmployeeResult gives an employee without
\* salaryCommitment, so every generatePaymentProof a payment starts ends in
\* the TypeError and no call of processPayment has a proof to submit.
Spec == Init /\ [][Next]_vars

\* The client called for payments only: addEmployee, processPayment and
\* processPayroll with a list of one employee, in any number up to MaxOps
\* and in any interleaving.
NextPayments ==
    \/ Tick
    \/ \E c \in CallIds, e \in Employees, salary \in Salaries, b \in BlindingPool :
          AddEmployeeStore(c, e, salary, b)
    \/ \E c \in CallIds : SubmitTransaction(c)
    \/ \E c \in CallIds : SubmissionReturns(c)
    \/ \E c \in CallIds : SubmissionLost(c)
    \/ \E c \in CallIds, e \in Employees, amount \in Salaries, period \in Periods :
          ProcessPaymentStart(c, e, amount, period)
    \/ \E c \in CallIds : ProcessPaymentLookup(c)
    \/ \E c \in CallIds : ProcessPaymentProofStart(c)
    \/ \E c \in CallIds : ProcessPaymentProofEnd(c)
    \/ \E c \in CallIds, e \in Employees, period \in Periods :
          PayrollStart(c, << e >>, period)
    \/ \E c \in CallIds : PayrollLoop(c)
    \/ \E c \in CallIds : PayrollPay(c)

SpecPayments == Init /\ [][NextPayments]_vars

\* ------------------------------------------------- pure functions, run once
\* One run of verifyCommitment on a commitment made by generateCommitment.
InitCommit ==
    /\ InitClient
    /\ probe \in { [ kind |-> "commit", salary |-> s, blindingFactor |-> b,
                     other |-> b2, done |-> FALSE, result |-> FALSE ] :
                   s \in 0..(PoseidonRadix - 1), b \in BlindingAliases,
                   b2 \in BlindingAliases }

CommitVerify ==
    /\ probe.kind = "commit"
    /\ ~probe.done
    /\ probe' = [ probe EXCEPT
          !.done = TRUE,
          !.result = verifyCommitment(
                        generateCommitment(probe.salary, probe.blindingFactor),
                        probe.salary, probe.other) ]
    /\ UNCHANGED << blindingFactors, calls, lastResult, lastTx, registry, nullifiers,
                    accepted, now, started, proofLog, secrets >>

NextCommit == CommitVerify

SpecCommit == InitCommit /\ [][NextCommit]_vars

\* One run of verifyProofLocally.  The proof is one generatePaymentProof made,
\* with each of its points possibly cut short, emptied or extended; the public
\* inputs are those of the proof or carry another nullifier.
Malformed(bytes) ==
    { bytes, << >>, SubSeq(bytes, 1, Len(bytes) - 1), bytes \o << 0 >> }

ProbeCommitment == generateCommitment(1, bigIntToBytes(1))

ProbeProof == generatePaymentProof(
                  [ salary |-> 1, blindingFactor |-> bigIntToBytes(1),
                    recipient |-> << 71, 65 >>, commitment |-> ProbeCommitment ],
                  0, 1, TRUE).proof

InitVerify ==
    /\ InitClient
    /\ probe \in { [ kind |-> "verify",
                     proof |-> [ ProbeProof EXCEPT !.a = a, !.b = b, !.c = c ],
                     publicInputs |-> [ commitment |-> ProbeCommitment,
                                        nullifier |-> n,
                                        recipientHash |-> hashAddress(<< 71, 65 >>) ],
                     backendThrows |-> t, done |-> FALSE,
                     threw |-> FALSE, value |-> FALSE ] :
                   a \in Malformed(ProbeProof.a), b \in Malformed(ProbeProof.b),
                   c \in Malformed(ProbeProof.c),
                   n \in { ProbeProof.nullifier, bigIntToBytes(0) },
                   t \in BOOLEAN }

VerifyLocally ==
    /\ probe.kind = "verify"
    /\ ~probe.done
    /\ LET out == verifyProofLocally(probe.proof, probe.publicInputs, probe.backendThrows)
       IN  probe' = [ probe EXCEPT !.done = TRUE, !.threw = out.threw,
                                   !.value = out.value ]
    /\ UNCHANGED << blindingFactors, calls, lastResult, lastTx, registry, nullifiers,
                    accepted, now, started, proofLog, secrets >>

NextVerify == VerifyLocally

SpecVerify == InitVerify /\ [][NextVerify]_vars

\* ------------------------------------------------------------ view key runs
\* One call of generateViewKey.
InitViewKey ==
    /\ InitClient
    /\ probe \in { [ kind |-> "viewKey",
                     params |-> [ companyId |-> Company, auditorAddress |-> Auditor,
                                  scope |-> sc, timeRange |-> tr, durationDays |-> d ],
                     pc |-> "start", done |-> FALSE, threw |-> FALSE, error |-> "",
                     tx |-> NoViewKeyTx ] :
                   sc \in AuditScopes, tr \in TimeRanges, d \in Durations }

\* generateViewKey up to the ledger receiving generate_view_key: the call
\* ends before that when mapAuditScope throws or the request is not delivered.
GenerateViewKey ==
    /\ probe.kind = "viewKey"
    /\ probe.pc = "start"
    /\ \E reached \in BOOLEAN :
          LET out == generateViewKey(probe.params, IF reached THEN "lost" ELSE "none")
          IN  IF out.tx = NoViewKeyTx
              THEN probe' = [ probe EXCEPT !.pc = "done", !.done = TRUE,
                                           !.threw = out.threw, !.error = out.error ]
              ELSE probe' = [ probe EXCEPT !.pc = "respond", !.tx = out.tx ]
    /\ UNCHANGED << blindingFactors, calls, lastResult, lastTx, registry, nullifiers,
                    accepted, now, started, proofLog, secrets >>

\* The end of a generateViewKey whose transaction the ledger received: the
\* response arrives and the call returns, or it is lost and the call throws.
ViewKeyResponse(delivery) ==
    /\ probe.kind = "viewKey"
    /\ probe.pc = "respond"
    /\ LET out == generateViewKey(probe.params, delivery)
       IN  probe' = [ probe EXCEPT !.pc = "done", !.done = TRUE, !.threw = out.threw,
                                   !.error = out.error, !.tx = out.tx ]
    /\ UNCHANGED << blindingFactors, calls, lastResult, lastTx, registry, nullifiers,
                    accepted, now, started, proofLog, secrets >>

ViewKeyReturns ==
    /\ probe.kind = "viewKey"
    /\ ViewKeyResponse("answered")

ViewKeyLost ==
    /\ probe.kind = "viewKey"
    /\ ViewKeyResponse("lost")

NextViewKey == GenerateViewKey \/ ViewKeyReturns \/ ViewKeyLost

SpecViewKey == InitViewKey /\ [][NextViewKey]_vars

\* ------------------------------------------------------------ point codec runs
\* The coordinates of a valid affine point are canonical decimal strings of
\* base-field elements; the third component is "1" (G1) or ["1", "0"] (G2).
Coordinates == { toString(v) : v \in { 0, 1, 2, 255, 256, FieldQ - 1 } }

G1Points == { << x, y, << 1 >> >> : x, y \in Coordinates }

G2Points ==
    { << << x0, x1 >>, << y0, y1 >>, << << 1 >>, << 0 >> >> >> :
        x0 \in Coordinates, x1 \in Coordinates, y0 \in Coordinates, y1 \in Coordinates }

\* The curve of G1: y^2 = x^3 + 3 over the base field.
OnCurveG1(point) ==
    LET x == BigInt(point[1])
        y == BigInt(point[2])
    IN  (y * y) % FieldQ = (((x * x) % FieldQ) * x + 3) % FieldQ

\* One encodeG1Point / decodeG1Point or encodeG2Point / decodeG2Point run.
InitPoint ==
    /\ InitClient
    /\ probe \in { [ kind |-> k, point |-> pt, done |-> FALSE, bytes |-> NoBytes,
                     threw |-> FALSE, decoded |-> << >> ] :
                   k \in { "g1" }, pt \in G1Points }
              \cup { [ kind |-> k, point |-> pt, done |-> FALSE, bytes |-> NoBytes,
                       threw |-> FALSE, decoded |-> << >> ] :
                     k \in { "g2" }, pt \in G2Points }

G1RoundTrip ==
    /\ probe.kind = "g1"
    /\ ~probe.done
    /\ LET bytes == encodeG1Point(probe.point)
       IN  probe' = [ probe EXCEPT
              !.done = TRUE, !.bytes = bytes, !.threw = decodeG1Throws(bytes),
              !.decoded = IF decodeG1Throws(bytes) THEN << >> ELSE decodeG1Point(bytes) ]
    /\ UNCHANGED << blindingFactors, calls, lastResult, lastTx, registry, nullifiers,
                    accepted, now, started, proofLog, secrets >>

G2RoundTrip ==
    /\ probe.kind = "g2"
    /\ ~probe.done
    /\ LET bytes == encodeG2Point(probe.point)
       IN  probe' = [ probe EXCEPT
              !.done = TRUE, !.bytes = bytes, !.threw = decodeG2Throws(bytes),
              !.decoded = IF decodeG2Throws(bytes) THEN << >> ELSE decodeG2Point(bytes) ]
    /\ UNCHANGED << blindingFactors, calls, lastResult, lastTx, registry, nullifiers,
                    accepted, now, started, proofLog, secrets >>

NextPoint == G1RoundTrip \/ G2RoundTrip

SpecPoint == InitPoint /\ [][NextPoint]_vars

\* ------------------------------------------------------------ scalar codec runs
\* The largest integer a scalar holds (2^256 - 1 in the source).
MaxScalar == Pow(ByteBase, ScalarLen) - 1

\* Integers given to the encoders: in range, negative and too large.
ScalarValues == { 0 - 2, 0 - 1, 0, 1, 255, 256, MaxScalar, MaxScalar + 1, MaxScalar + 2 }

\* Buffers given to the decoders: every length up to one more than a scalar.
SampleBytes == { 0, 1, 128, 255 }
ScalarBuffers == SeqsUpTo(SampleBytes, ScalarLen + 1)

\* One run of an encoder (bigIntToBytes, bigIntToBytes32) or of a decoder
\* (bytesToBigInt, bytes32ToBigInt).
InitScalar ==
    /\ InitClient
    /\ probe \in { [ kind |-> "encode", fn |-> f, value |-> v, buffer |-> NoBytes,
                     done |-> FALSE, threw |-> FALSE ] :
                   f \in { "bigIntToBytes", "bigIntToBytes32" }, v \in ScalarValues }
              \cup { [ kind |-> "decode", fn |-> f, value |-> 0, buffer |-> b,
                       done |-> FALSE, threw |-> FALSE ] :
                     f \in { "bytesToBigInt", "bytes32ToBigInt" }, b \in ScalarBuffers }

\* Neither encoder has a throw statement.
EncodeScalar ==
    /\ probe.kind = "encode"
    /\ ~probe.done
    /\ probe' = [ probe EXCEPT
          !.done = TRUE,
          !.threw = FALSE,
          !.buffer = IF probe.fn = "bigIntToBytes" THEN bigIntToBytes(probe.value)
                     ELSE bigIntToBytes32(probe.value) ]
    /\ UNCHANGED << blindingFactors, calls, lastResult, lastTx, registry, nullifiers,
                    accepted, now, started, proofLog, secrets >>

\* bytesToBigInt has no throw statement; bytes32ToBigInt throws a TypeError on
\* a buffer shorter than a scalar.
DecodeScalar ==
    /\ probe.kind = "decode"
    /\ ~probe.done
    /\ probe' = [ probe EXCEPT
          !.done = TRUE,
          !.threw = IF probe.fn = "bytesToBigInt" THEN FALSE
                    ELSE bytes32Throws(probe.buffer),
          !.value = IF probe.fn = "bytesToBigInt" THEN bytesToBigInt(probe.buffer)
                    ELSE IF bytes32Throws(probe.buffer) THEN 0
                    ELSE bytes32ToBigInt(probe.buffer) ]
    /\ UNCHANGED << blindingFactors, calls, lastResult, lastTx, registry, nullifiers,
                    accepted, now, started, proofLog, secrets >>

NextScalar == EncodeScalar \/ DecodeScalar

SpecScalar == InitScalar /\ [][NextScalar]_vars

\* ------------------------------------------------------------ nullifier
\* Runs of generatePaymentProof for one commitment and blinding factor, each
\* for the payment of a billing period.  A run reads Date.now() as it starts
\* and returns when the prover has ended; runs may overlap.
MaxRuns == 2

InitNullifier ==
    /\ InitClient
    /\ probe \in { [ kind |-> "nullifier", salary |-> s, blindingFactor |-> b,
                     recipient |-> e, runs |-> << >> ] :
                   s \in Salaries, b \in BlindingPool, e \in Employees }

\* generatePaymentProof is called for a payment of the period: Date.now().
ProofRunStart(period) ==
    /\ probe.kind = "nullifier"
    /\ Len(probe.runs) < MaxRuns
    /\ probe' = [ probe EXCEPT !.runs =
                     Append(@, [ period |-> period, time |-> now, done |-> FALSE,
                                 ok |-> FALSE, nullifier |-> NoBytes ]) ]
    /\ UNCHANGED << blindingFactors, calls, lastResult, lastTx, registry, nullifiers,
                    accepted, now, started, proofLog, secrets >>

\* The run ends: the proof with its nullifier, or the error of the prover.
ProofRunEnd(i, r, derived) ==
    /\ probe.kind = "nullifier"
    /\ i \in DOMAIN probe.runs
    /\ ~probe.runs[i].done
    /\ LET run == generatePaymentProof(
                      [ salary |-> probe.salary, blindingFactor |-> probe.blindingFactor,
                        recipient |-> probe.recipient,
                        commitment |-> generateCommitment(probe.salary,
                                                          probe.blindingFactor) ],
                      probe.runs[i].time, r, derived)
       IN  probe' = [ probe EXCEPT !.runs[i] =
                         [ @ EXCEPT !.done = TRUE, !.ok = run.ok,
                                    !.nullifier = run.nullifier ] ]
    /\ UNCHANGED << blindingFactors, calls, lastResult, lastTx, registry, nullifiers,
                    accepted, now, started, proofLog, secrets >>

NextNullifier ==
    \/ Tick
    \/ \E period \in Periods : ProofRunStart(period)
    \/ \E i \in 1..MaxRuns, r \in ProofRandomness, derived \in BOOLEAN :
          ProofRunEnd(i, r, derived)

SpecNullifier == InitNullifier /\ [][NextNullifier]_vars

\* ------------------------------------------------------------ end to end
\* One run of generateCommitment, generatePaymentProof on the commitment and
\* verifyProofLocally on the proof, with a verifier backend that does not fail;
\* `derived` is the circuit's finding on the nullifier.
InitEndToEnd ==
    /\ InitClient
    /\ probe \in { [ kind |-> "endToEnd", salary |-> s, blindingFactor |-> b,
                     recipient |-> e, time |-> t, randomness |-> r,
                     derived |-> d, done |-> FALSE, proved |-> FALSE, verified |-> FALSE,
                     proof |-> NoProof, signals |-> << >> ] :
                   s \in 0..(PoseidonRadix - 1), b \in BlindingAliases,
                   e \in Employees, t \in 0..MaxClock, r \in ProofRandomness,
                   d \in BOOLEAN }

EndToEnd ==
    /\ probe.kind = "endToEnd"
    /\ ~probe.done
    /\ LET commitment == generateCommitment(probe.salary, probe.blindingFactor)
           run == generatePaymentProof(
                      [ salary |-> probe.salary, blindingFactor |-> probe.blindingFactor,
                        recipient |-> probe.recipient, commitment |-> commitment ],
                      probe.time, probe.randomness, probe.derived)
           publicInputs == [ commitment |-> commitment,
                             nullifier |-> run.proof.nullifier,
                             recipientHash |-> hashAddress(probe.recipient) ]
       IN  probe' = [ probe EXCEPT
              !.done = TRUE,
              !.proved = run.ok,
              !.proof = run.proof,
              !.signals = IF run.ok
                          THEN << bytesToFieldElement(publicInputs.commitment),
                                  bytesToFieldElement(publicInputs.nullifier),
                                  publicInputs.recipientHash >>
                          ELSE << >>,
              !.verified = IF run.ok
                           THEN verifyProofLocally(run.proof, publicInputs, FALSE).value
                           ELSE FALSE ]
    /\ UNCHANGED << blindingFactors, calls, lastResult, lastTx, registry, nullifiers,
                    accepted, now, started, proofLog, secrets >>

NextEndToEnd == EndToEnd

SpecEndToEnd == InitEndToEnd /\ [][NextEndToEnd]_vars

\* ================================================================ claims

NullifierFunctionOfPeriod ==
    probe.kind = "nullifier" =>
        \A i, j \in DOMAIN probe.runs :
            ( /\ probe.runs[i].done
              /\ probe.runs[j].done
              /\ probe.runs[i].period = probe.runs[j].period )
                => probe.runs[i].nullifier = probe.runs[j].nullifier

\* C3: no transaction the client submits carries a plaintext salary or a
\* blinding factor among its arguments.
CarriesSalary(tx) ==
    /\ tx.amount # NoNum
    /\ \E s \in secrets :
          /\ s.employeeAddress = tx.employeeAddress
          /\ tx.proof.attests # << >>
          /\ bytesToFieldElement(s.commitment) = tx.proof.attests[1]
          /\ s.salary = tx.amount

CarriesBlinding(tx) ==
    \E s \in secrets :
        s.blindingFactor \in { tx.commitment, tx.nullifier, tx.proof.a, tx.proof.b,
                               tx.proof.c, tx.admin, tx.treasuryAddress,
                               tx.auditorAddress, tx.keyId }

NoSecretOnLedger == ~CarriesSalary(lastTx) /\ ~CarriesBlinding(lastTx)

\* C3 witness: the ledger has applied update_salary_commitment with the
\* commitment of a salary and blinding factor the client holds for the
\* employee, and a processPayment for the employee has ended in proof
\* generation, having sent nothing.
CommitmentOnLedgerSeen ==
    /\ lastTx.method = "update_salary_commitment"
    /\ lastTx.verdict = "applied"
    /\ \E s \in secrets :
          /\ s.employeeAddress = lastTx.employeeAddress
          /\ s.commitment = lastTx.commitment
          /\ s.blindingFactor = blindingFactors[Key(Company, lastTx.employeeAddress)]
    /\ lastResult.op = "processPayment"
    /\ lastResult.error = "TypeError"
    /\ lastResult.employeeAddress = lastTx.employeeAddress

\* C4: generatePaymentProof runs for payments of the same commitment in two
\* different periods give different nullifiers.
PeriodsDoNotCollide ==
    probe.kind = "nullifier" =>
        \A i, j \in DOMAIN probe.runs :
            ( /\ probe.runs[i].done
              /\ probe.runs[j].done
              /\ probe.runs[i].period # probe.runs[j].period )
                => probe.runs[i].nullifier # probe.runs[j].nullifier

\* C5: verifyCommitment(generateCommitment(s, b), s, b') is true exactly when
\* b' and b are the same bytes.
CommitmentBindsBlinding ==
    (probe.kind = "commit" /\ probe.done)
        => (probe.result <=> probe.other = probe.blindingFactor)

\* C6: without a stored blinding factor processPayment throws the
\* missing-secret error before anything else and never proves with a
\* substitute secret, and processPayroll reports every such employee as a
\* failure.
MissingSecretReported ==
    /\ \A x \in proofLog : x.blindingFactor \in BlindingPool
    /\ \A c \in CallIds :
          calls[c].pc \in { "lookup", "answer", "proving", "submit" }
              => calls[c].blindingFactor \in BlindingPool
    /\ lastResult.error = "BlindingFactorNotFound" =>
          (lastResult.surface = "thrown" /\ lastResult.ledger = "none")
    /\ lastResult.op = "processPayroll" =>
          \A i \in DOMAIN lastResult.given :
              \E j \in DOMAIN lastResult.results :
                  lastResult.results[j].employeeAddress = lastResult.given[i]

\* C7: when the payment amount and the stored blinding factor do not open the
\* commitment the registry holds, the generatePaymentProof of a processPayment
\* ends in the proof-generation error, and processPayment ends with it,
\* having submitted nothing.
ProofFailureReported ==
    [][ \A c \in CallIds :
          ( /\ calls[c].op = "processPayment"
            /\ calls[c].pc = "proving"
            /\ calls'[c] # calls[c]
            /\ registry[calls[c].employeeAddress].registered
            /\ ~verifyCommitment(registry[calls[c].employeeAddress].salaryCommitment,
                                 calls[c].amount, calls[c].blindingFactor) )
              => /\ calls'[c].op = "idle"
                 /\ lastResult'.op = "processPayment"
                 /\ lastResult'.surface = "thrown"
                 /\ lastResult'.error = "ProofGenerationFailed"
                 /\ lastTx' = lastTx
      ]_vars

VerifyIsTotal ==
    (probe.kind = "verify" /\ probe.done) =>
        /\ ~probe.threw
        /\ probe.value \in BOOLEAN
        /\ ( \/ decodeG1Throws(probe.proof.a)
             \/ decodeG2Throws(probe.proof.b)
             \/ decodeG1Throws(probe.proof.c)
             \/ probe.backendThrows ) => ~probe.value

\* C10 witness: verifyProofLocally has returned false for a proof whose first
\* point is too short to decode, with a verifier backend that throws.
VerifyMalformedSeen ==
    /\ probe.kind = "verify"
    /\ probe.done
    /\ decodeG1Throws(probe.proof.a)
    /\ probe.backendThrows
    /\ ~probe.threw
    /\ ~probe.value

\* C11: the blinding factor of a key is destroyed when it is retired.  The step
\* by which a deactivateEmployee returns leaves no entry for the key, a
\* processPayment started on a key without entry ends there with the
\* missing-secret error, and the step of updateSalary that stores the new
\* factor leaves it as the entry of the key, in place of the one before.
BlindingFactorRetired ==
    [][ /\ \A c \in CallIds :
              ( /\ calls[c].op = "deactivateEmployee"
                /\ calls'[c].op = "idle"
                /\ lastResult'.success )
                  => /\ lastResult'.op = "deactivateEmployee"
                     /\ blindingFactors'[Key(Company, calls[c].employeeAddress)] = NoBytes
        /\ \A c \in CallIds :
              (calls[c].op = "idle" /\ calls'[c].op = "processPayment")
                  => blindingFactors[Key(Company, calls'[c].employeeAddress)] # NoBytes
        /\ ( /\ started' # started
              /\ calls' = calls
              /\ lastResult'.op = "processPayment"
              /\ blindingFactors[Key(Company, lastResult'.employeeAddress)] = NoBytes )
                  => ( /\ lastResult'.error = "BlindingFactorNotFound"
                       /\ lastResult'.surface = "thrown" )
        /\ \A c \in CallIds :
              (calls[c].op = "idle" /\ calls'[c].op = "updateSalary")
                  => /\ blindingFactors'[Key(Company, calls'[c].employeeAddress)]
                           = calls'[c].blindingFactor
                     /\ \A k \in Keys \ { Key(Company, calls'[c].employeeAddress) } :
                           blindingFactors'[k] = blindingFactors[k]
      ]_vars

\* C11 witness: a deactivateEmployee the ledger applied has returned for an
\* employee a blinding factor was stored for, and the store has no entry for
\* the key.
BlindingFactorGone ==
    /\ lastResult.op = "deactivateEmployee"
    /\ lastResult.success
    /\ lastResult.ledger = "applied"
    /\ \E s \in secrets : s.employeeAddress = lastResult.employeeAddress
    /\ blindingFactors[Key(Company, lastResult.employeeAddress)] = NoBytes

\* C12: generateViewKey fails with the invalid-scope error and submits nothing
\* when durationDays is not a positive integer or a time range has its start
\* after its end, and rejects no other request that names one of the four
\* scope variants.
ViewKeyRequestInvalid(params) ==
    \/ params.durationDays < 1
    \/ ( /\ params.scope = "timeRange"
         /\ params.timeRange.present
         /\ params.timeRange.start > params.timeRange.end )

ViewKeyRequestValid(params) ==
    /\ ~ViewKeyRequestInvalid(params)
    /\ params.scope \in { "full", "aggregate", "employeeList" }
          \/ (params.scope = "timeRange" /\ params.timeRange.present)

\* The errors mapAuditScope throws stand for the invalid-scope error.
ViewKeyScopeValidated ==
    (probe.kind = "viewKey" /\ probe.done) =>
        /\ ViewKeyRequestInvalid(probe.params) =>
              ( /\ probe.threw
                /\ probe.error \in { "UnknownScope", "TimeRangeRequired" }
                /\ probe.tx.method = "none" )
        /\ ViewKeyRequestValid(probe.params) =>
              probe.error \in { "", "NetworkError" }

\* C13: decoding the encoding of a valid affine point gives the point back,
\* for G1 with an encoding of two scalars x || y and for G2 with an encoding
\* of four scalars x0 || x1 || y0 || y1.
PointRoundTrip ==
    /\ (probe.kind = "g1" /\ probe.done) =>
          /\ ~probe.threw
          /\ probe.decoded = probe.point
          /\ Len(probe.bytes) = 2 * ScalarLen
          /\ probe.bytes = bigIntToBytes32(BigInt(probe.point[1]))
                              \o bigIntToBytes32(BigInt(probe.point[2]))
    /\ (probe.kind = "g2" /\ probe.done) =>
          /\ ~probe.threw
          /\ probe.decoded = probe.point
          /\ Len(probe.bytes) = 4 * ScalarLen
          /\ probe.bytes = bigIntToBytes32(BigInt(probe.point[1][1]))
                              \o bigIntToBytes32(BigInt(probe.point[1][2]))
                              \o bigIntToBytes32(BigInt(probe.point[2][1]))
                              \o bigIntToBytes32(BigInt(probe.point[2][2]))

\* C13 witness: the generator of G1, (1, 2), which is on the curve, has been
\* encoded and decoded.
PointRoundTripSeen ==
    /\ probe.kind = "g1"
    /\ probe.done
    /\ probe.point = << << 1 >>, << 2 >>, << 1 >> >>
    /\ OnCurveG1(probe.point)
    /\ probe.decoded = probe.point

\* C14: encoding an integer that is negative or above the largest scalar
\* fails, and decoding a buffer whose length is not that of a scalar fails;
\* neither returns a value made from part of the input.
ScalarCodecRejects ==
    /\ (probe.kind = "encode" /\ probe.done) =>
          ((probe.value < 0 \/ probe.value > MaxScalar) => probe.threw)
    /\ (probe.kind = "decode" /\ probe.done) =>
          (Len(probe.buffer) # ScalarLen => probe.threw)

\* C15: for a commitment made by generateCommitment from a salary and a
\* blinding factor, generatePaymentProof returns a proof (when the circuit
\* finds the nullifier correctly computed), the public signals
\* verifyProofLocally rebuilds are those the proof was made for, and
\* verifyProofLocally accepts the proof.
EndToEndComplete ==
    (probe.kind = "endToEnd" /\ probe.done) =>
        /\ probe.derived => probe.proved
        /\ probe.proved =>
              /\ probe.signals = probe.proof.attests
              /\ probe.verified

\* C15 witness: a proof made with a blinding factor above the field modulus
\* has been generated and verified.
EndToEndSeen ==
    /\ probe.kind = "endToEnd"
    /\ probe.done
    /\ bytesToBigInt(probe.blindingFactor) >= FieldP
    /\ probe.proof # NoProof
    /\ probe.verified

\* C16: addEmployee and updateSalary leave the store as it was when their
\* submission fails: whenever no operation is in flight, a blinding factor
\* stored for a key opens the commitment the registry holds for the employee.
StoreMatchesRegistry ==
    (\A c \in CallIds : calls[c].op = "idle") =>
        \A e \in Employees :
            blindingFactors[Key(Company, e)] # NoBytes =>
                Opens(blindingFactors[Key(Company, e)], registry[e])

\* C17: no step of processPayment changes the blinding-factor store, called
\* by itself or by processPayroll: not the start, not the lookup, not proof
\* generation (whether it returns a proof or throws), not the submission
\* (whether the ledger applies it, rejects it as a replay or as invalid, or is
\* not reached), and not the end of the call (whether the response of the
\* ledger arrives or is lost).
PaymentKeepsStore ==
    [][ ( \/ \E c \in CallIds :
                /\ calls[c].op \in { "processPayment", "processPayroll" }
                /\ calls'[c] # calls[c]
          \/ \E c \in CallIds :
                /\ calls[c].op = "idle"
                /\ calls'[c].op \in { "processPayment", "processPayroll" }
          \/ ( /\ started' # started
                /\ calls' = calls
                /\ lastResult'.op \in { "processPayment", "processPayroll" } ) )
        => blindingFactors' = blindingFactors ]_vars

\* C17 witness: a processPayment for a registered employee has ended with
\* proof generation throwing, and the store still holds the factor that opens
\* the employee's commitment.
PaymentFailedStoreKept ==
    /\ lastResult.op = "processPayment"
    /\ lastResult.error = "TypeError"
    /\ blindingFactors[Key(Company, lastResult.employeeAddress)] \in BlindingPool
    /\ Opens(blindingFactors[Key(Company, lastResult.employeeAddress)],
             registry[lastResult.employeeAddress])

\* C18: processPayroll called with an explicit list returns one result per
\* listed employee, in list order, each with the employee's address and the
\* requested period, and a failed payment is an entry with success false.
PayrollOneResultEach ==
    lastResult.op = "processPayroll" =>
        /\ Len(lastResult.results) = Len(lastResult.given)
        /\ \A i \in DOMAIN lastResult.results :
              /\ i \in DOMAIN lastResult.given
              /\ lastResult.results[i].employeeAddress = lastResult.given[i]
              /\ lastResult.results[i].period = lastResult.period
              /\ lastResult.results[i].error # "" => ~lastResult.results[i].success

====
